---- MODULE Spec2Model ----
(***************************************************************************)
(* The blog REST API.                                                      *)
(*                                                                         *)
(* Spec      : slug assignment by the Post, Category and Comment CRUD      *)
(*             serializers and the records they persist.                   *)
(* SpecLoop  : the comment slug resolver                                   *)
(*             (CommentCRUDSerializer._generate_unique_slug), one probe    *)
(*             at a time.                                                  *)
(* SpecRace  : two create requests served at the same time, each split     *)
(*             into is_valid() and save().                                 *)
(* SpecOwner : CommentRetrieveUpdateDestroyApiView with the comments'      *)
(*             authors and the requests' users.                            *)
(* SpecUsers : registration, account activation and password change.       *)
(*                                                                         *)
(* Text is a sequence of one-character strings, so that slugify, slicing,  *)
(* case folding and the numeric suffix are computed character by           *)
(* character.                                                              *)
(***************************************************************************)
EXTENDS Integers, Sequences, FiniteSets, TLC

VARIABLES posts, categories, comments, resp, lp, race, users

vars == <<posts, categories, comments, resp, lp, race, users>>

-----------------------------------------------------------------------------
(* Bounds of the model                                                     *)

\* most records held by the three collections together
MaxRecords == 2

\* most resolver calls made in a row on one title (resolver specification)
MaxCalls == 2

\* most comments in a collection the resolver specification starts from
MaxLoopRecords == 3

\* most registered users, and the largest user id a request addresses
MaxUsers == 2

-----------------------------------------------------------------------------
(* Program constants                                                       *)

MAX_TITLE_LENGTH == 100
MAX_CONTENT_LENGTH == 500
SLUG_MAX_LENGTH == 100
MIN_TITLE_LENGTH == 3
MIN_CONTENT_LENGTH == 10
AUTO_TITLE_LENGTH == 50
CATEGORY_MAX_LENGTH == 100
POST_SLUG_MAX_LENGTH == 100

DRAFT == "draft"
PUBLISH == "publish"

-----------------------------------------------------------------------------
(* Text                                                                    *)

\* a request that carries no status
NoStatus == "unset"

\* Python's None; no text is equal to it (text holds one-character strings)
None == <<"None">>

\* Python truthiness of an optional text: None and '' are false
Truthy(v) == v # None /\ v # <<>>

UpperChars == {"A", "B", "X"}
LowerChars == {"a", "b", "c", "x"}
DigitChars == {"0", "1", "2", "3", "4", "5", "6", "7", "8", "9"}

\* str.lower() on one character
LowerChar(c) ==
    CASE c = "A" -> "a"
      [] c = "B" -> "b"
      [] c = "X" -> "x"
      [] OTHER -> c

WordChars == UpperChars \cup LowerChars \cup DigitChars \cup {"_"}

\* regex class \w on ASCII text
IsWordChar(c) == c \in WordChars

\* regex class [-\s]
IsSepChar(c) == c \in {"-", " "}

\* v[:n]
Slice(v, n) == IF Len(v) <= n THEN v ELSE SubSeq(v, 1, n)

\* re.sub(r'[-\s]+', '-', value): the first character of a run of hyphens
\* and whitespace becomes a hyphen, the rest of the run goes
CollapseSeps(s) ==
    LET marked == [i \in 1..Len(s) |->
                      IF ~IsSepChar(s[i]) THEN s[i]
                      ELSE IF i > 1 /\ IsSepChar(s[i - 1]) THEN "" ELSE "-"]
    IN  SelectSeq(marked, LAMBDA c : c # "")

\* str.strip(chars)
Strip(s, chars) ==
    LET keep == {i \in 1..Len(s) : s[i] \notin chars}
        first == CHOOSE i \in keep : \A j \in keep : i <= j
        last == CHOOSE i \in keep : \A j \in keep : j <= i
    IN  IF keep = {} THEN <<>> ELSE SubSeq(s, first, last)

\* django.utils.text.slugify on ASCII text: lowercase, drop what is not
\* [\w\s-], collapse runs of hyphens and whitespace to one hyphen, strip
\* hyphens and underscores from both ends
slugify(value) ==
    LET lowered == [i \in 1..Len(value) |-> LowerChar(value[i])]
        kept == SelectSeq(lowered, LAMBDA c : IsWordChar(c) \/ IsSepChar(c))
    IN  Strip(CollapseSeps(kept), {"-", "_"})

DigitChar(d) ==
    CASE d = 0 -> "0" [] d = 1 -> "1" [] d = 2 -> "2" [] d = 3 -> "3"
      [] d = 4 -> "4" [] d = 5 -> "5" [] d = 6 -> "6" [] d = 7 -> "7"
      [] d = 8 -> "8" [] OTHER -> "9"

\* str(num) for num >= 0
RECURSIVE IntText(_)
IntText(n) ==
    IF n < 10 THEN <<DigitChar(n)>>
    ELSE IntText(n \div 10) \o <<DigitChar(n % 10)>>

\* SlugField's pattern ^[-a-zA-Z0-9_]+$
IsSlugText(s) ==
    /\ s # <<>>
    /\ \A i \in 1..Len(s) : IsWordChar(s[i]) \/ s[i] = "-"

-----------------------------------------------------------------------------
(* Inputs                                                                  *)

Title1 == <<"A", " ", "b">>
Title2 == <<"a", " ", "b", "!">>
Content1 == <<"a", " ", "b", " ", "c", "c", "c", "c", "c", "c">>
SlugAB == <<"a", "-", "b">>
SlugX == <<"X">>

\* titles a request may carry (None: the request has no title)
Titles == {Title1, Title2}
\* slugs a request may carry (None: no slug)
Slugs == {None, SlugAB, SlugX}
\* contents a comment request may carry
Contents == {None, Content1}

-----------------------------------------------------------------------------
(* Record store                                                            *)

\* Comment.active_comments
active_comments(cs) == {c \in cs : c.is_active}

\* PublishedPostsManager.get_queryset
published(ps) == {p \in ps : p.status = PUBLISH /\ p.is_active}

\* queryset.filter(slug=value).exists()
SlugExists(qs, value) == \E r \in qs : r.slug = value

\* queryset.exclude(pk=pk)
ExcludePk(qs, pk) == {r \in qs : r.id # pk}

\* the primary key the database gives the next row of a table
NextPk(rows) ==
    IF rows = {} THEN 1
    ELSE 1 + (CHOOSE m \in {r.id : r \in rows} : \A r \in rows : r.id <= m)

\* Category.slug is declared unique=True
CategorySlugIsUnique == TRUE

\* the storage layer's unique constraint on Post.slug
PostSlugIsUnique == TRUE

\* the storage layer's unique constraint on Comment.slug
CommentSlugIsUnique == TRUE

\* the slug column declared without its unique constraint
KeepsUnique_Unconstrained(rows, r) == TRUE

\* whether writing row r keeps the table's unique constraint on slug
KeepsUnique(rows, r) == ~SlugExists(ExcludePk(rows, r.id), r.slug)

\* whether the table has a row of this primary key
HasId(rows, id) == \E r \in rows : r.id = id

\* the table after row r is written (inserted, or replacing the row of its id)
Written(rows, r) == ExcludePk(rows, r.id) \cup {r}

\* the collection of one kind of record, as it is now
RowsOfKind(kind) ==
    CASE kind = "post" -> posts
      [] kind = "category" -> categories
      [] OTHER -> comments

TotalRecords == Cardinality(posts) + Cardinality(categories) + Cardinality(comments)

\* the serializer's instance when the view's get_object() returned None
NoInstance == [id |-> 0]

\* the outcome of a request: the HTTP status, the fields the error names,
\* the table afterwards and the primary key written (0: nothing written)
Outcome(status, errors, rows, saved) ==
    [status |-> status, errors |-> errors, rows |-> rows, saved |-> saved]

-----------------------------------------------------------------------------
(* comments/serializers.py                                                 *)

\* the suffix taken from num after its increment
Suffixed_OffByOne(base_slug, num) == base_slug \o <<"-">> \o IntText(num + 1)

\* f"{base_slug}-{num}"
Suffixed(base_slug, num) == base_slug \o <<"-">> \o IntText(num)

\* the while loop of _generate_unique_slug, from one value of its locals
RECURSIVE SlugLoop(_, _, _, _)
SlugLoop(cs, base_slug, unique_slug, num) ==
    IF SlugExists(active_comments(cs), unique_slug)
    THEN SlugLoop(cs, base_slug, Suffixed(base_slug, num), num + 1)
    ELSE unique_slug

\* the resolver starting from base-1 instead of base
generate_unique_slug_Suffixes(cs, title) ==
    LET base_slug == Slice(slugify(title), SLUG_MAX_LENGTH)
    IN  SlugLoop(cs, base_slug, Suffixed(base_slug, 1), 2)

\* CommentCRUDSerializer._generate_unique_slug
generate_unique_slug(cs, title) ==
    LET base_slug == Slice(slugify(title), SLUG_MAX_LENGTH)
    IN  SlugLoop(cs, base_slug, base_slug, 1)

\* the title validate() makes of the content when the request has none
AutoTitle(content) ==
    IF Len(content) > AUTO_TITLE_LENGTH
    THEN Slice(content, AUTO_TITLE_LENGTH) \o <<".", ".", ".">>
    ELSE content

\* the fields of CommentCRUDSerializer that reject their input
CommentFieldErrors(cs, instance, title, slug, content, partial) ==
    {f \in {"title", "slug", "content"} :
        \/ /\ f = "title"
           /\ title # None
           /\ (Len(title) < MIN_TITLE_LENGTH \/ Len(title) > MAX_TITLE_LENGTH)
        \/ /\ f = "slug"
           /\ Truthy(slug)
           /\ \/ ~IsSlugText(slug)
              \/ Len(slug) > SLUG_MAX_LENGTH
              \/ SlugExists(ExcludePk(active_comments(cs), instance.id), slug)
        \/ /\ f = "content"
           /\ \/ content = None /\ ~partial
              \/ /\ content # None
                 /\ \/ Len(content) < MIN_CONTENT_LENGTH
                    \/ Len(content) > MAX_CONTENT_LENGTH}

\* CommentCRUDSerializer.validate: the attrs it returns
CommentValidate(cs, title, slug, content) ==
    LET stripped == Strip(IF content = None THEN <<>> ELSE content, {" "})
        title2 == IF Truthy(title) THEN title ELSE AutoTitle(stripped)
        slug2 == IF Truthy(slug) THEN slug ELSE generate_unique_slug(cs, title2)
    IN  [ok |-> stripped # <<>>, title |-> title2, slug |-> slug2]

\* CommentCRUDSerializer.create
CommentCreate(cs, attrs, post_ok) ==
    LET row == [id |-> NextPk(cs), title |-> attrs.title, slug |-> attrs.slug,
                is_active |-> TRUE]
    IN  IF ~post_ok THEN Outcome(400, {"post_slug"}, cs, 0)
        ELSE IF CommentSlugIsUnique /\ ~KeepsUnique(cs, row)
        THEN Outcome(500, {"IntegrityError"}, cs, 0)
        ELSE Outcome(201, {}, Written(cs, row), row.id)

\* CommentCRUDSerializer.update
CommentUpdate(cs, instance, attrs) ==
    LET row == [instance EXCEPT !.title = attrs.title,
                                !.slug = generate_unique_slug(cs, attrs.title)]
    IN  IF CommentSlugIsUnique /\ ~KeepsUnique(cs, row)
        THEN Outcome(500, {"IntegrityError"}, cs, 0)
        ELSE Outcome(200, {}, Written(cs, row), row.id)

\* is_valid() and save() of CommentCRUDSerializer on one request
CommentSave(cs, instance, title, slug, content, partial, post_ok) ==
    LET errors == CommentFieldErrors(cs, instance, title, slug, content, partial)
        attrs == CommentValidate(cs, title, slug, content)
    IN  IF errors # {} THEN Outcome(400, errors, cs, 0)
        ELSE IF ~attrs.ok THEN Outcome(400, {"content"}, cs, 0)
        ELSE IF instance.id = NoInstance.id
        THEN CommentCreate(cs, attrs, post_ok)
        ELSE CommentUpdate(cs, instance, attrs)

-----------------------------------------------------------------------------
(* category/models.py, category/serializers.py                             *)

\* Category.save: an empty slug is made from the title; the row is then
\* handed to the parent save() with the signature's defaults (the Ellipsis
\* object) for every argument the caller left out.  Model.save() refuses a
\* truthy force_insert together with a truthy force_update or update_fields
\* with ValueError; raises says whether that refusal is met.
CategoryModelSave(cats, row, raises) ==
    LET row2 == IF Truthy(row.slug) THEN row
                ELSE [row EXCEPT !.slug = slugify(row.title)]
    IN  IF raises THEN Outcome(500, {"ValueError"}, cats, 0)
        ELSE IF CategorySlugIsUnique /\ ~KeepsUnique(cats, row2)
        THEN Outcome(500, {"IntegrityError"}, cats, 0)
        ELSE Outcome(IF row.id \in {c.id : c \in cats} THEN 200 ELSE 201,
                     {}, Written(cats, row2), row2.id)

\* CategoryCRUDSerializer.validate_title: the value it returns
CategoryCleanTitle(title) == Strip(title, {" "})

\* the fields of CategoryCRUDSerializer that reject their input
CategoryFieldErrors(cats, instance, title, slug, partial) ==
    {f \in {"title", "slug"} :
        \/ /\ f = "title"
           /\ \/ title = None /\ ~partial
              \/ /\ title # None
                 /\ \/ CategoryCleanTitle(title) = <<>>
                    \/ Len(CategoryCleanTitle(title)) > CATEGORY_MAX_LENGTH
        \/ /\ f = "slug"
           /\ Truthy(slug)
           /\ \/ ~IsSlugText(slug)
              \/ Len(slug) > CATEGORY_MAX_LENGTH
              \/ SlugExists(ExcludePk(cats, instance.id), slug)}

\* CategoryCRUDSerializer.validate: the attrs it returns (None: not in attrs)
CategoryValidate(cats, instance, title, slug) ==
    LET title2 == IF title = None THEN None ELSE CategoryCleanTitle(title)
        slug2 == IF title2 # None /\ ~Truthy(slug) THEN slugify(title2) ELSE slug
    IN  [ok |-> slug2 = None \/ ~SlugExists(ExcludePk(cats, instance.id), slug2),
         title |-> title2, slug |-> slug2]

\* CategoryCRUDSerializer.create
CategoryCreate(cats, attrs, raises) ==
    LET title == IF attrs.title = None THEN <<>> ELSE attrs.title
        slug == IF ~Truthy(attrs.slug) /\ Truthy(attrs.title)
                THEN slugify(attrs.title)
                ELSE IF attrs.slug = None THEN <<>> ELSE attrs.slug
    IN  CategoryModelSave(cats, [id |-> NextPk(cats), title |-> title,
                                 slug |-> slug, is_active |-> TRUE], raises)

\* CategoryCRUDSerializer.update
CategoryUpdate(cats, instance, attrs, raises) ==
    LET slug == IF attrs.title # None /\ ~Truthy(attrs.slug)
                THEN slugify(attrs.title) ELSE attrs.slug
        row == [instance EXCEPT
                   !.title = IF attrs.title = None THEN @ ELSE attrs.title,
                   !.slug = IF slug = None THEN @ ELSE slug]
    IN  CategoryModelSave(cats, row, raises)

\* is_valid() and save() of CategoryCRUDSerializer on one request
CategorySave(cats, instance, title, slug, partial, raises) ==
    LET errors == CategoryFieldErrors(cats, instance, title, slug, partial)
        attrs == CategoryValidate(cats, instance, title, slug)
    IN  IF errors # {} THEN Outcome(400, errors, cats, 0)
        ELSE IF ~attrs.ok THEN Outcome(400, {"slug"}, cats, 0)
        ELSE IF instance.id = NoInstance.id
        THEN CategoryCreate(cats, attrs, raises)
        ELSE CategoryUpdate(cats, instance, attrs, raises)

-----------------------------------------------------------------------------
(* posts/serializers.py                                                    *)

\* str.lower()
Lower(s) == [i \in 1..Len(s) |-> LowerChar(s[i])]

\* PostCRUDSerializer.validate_title
PostTitleTaken(ps, instance, title) ==
    \E p \in ExcludePk(ps, instance.id) : p.title = title

\* the fields of PostCRUDSerializer that reject their input
PostFieldErrors(ps, instance, title, slug, partial) ==
    {f \in {"title", "slug"} :
        \/ /\ f = "title"
           /\ \/ title = None /\ ~partial
              \/ title # None /\ PostTitleTaken(ps, instance, title)
        \/ /\ f = "slug"
           /\ Truthy(slug)
           /\ \/ ~IsSlugText(slug)
              \/ Len(slug) > POST_SLUG_MAX_LENGTH
              \/ SlugExists(ExcludePk(published(ps), instance.id), slug)}

\* PostCRUDSerializer.create
PostCreate(ps, title, slug, status) ==
    LET title2 == IF title = None THEN <<>> ELSE title
        slug2 == IF Truthy(slug) THEN slug ELSE slugify(title2)
        row == [id |-> NextPk(ps), title |-> title2, slug |-> Lower(slug2),
                status |-> IF status = NoStatus THEN PUBLISH ELSE status,
                is_active |-> TRUE]
    IN  IF PostSlugIsUnique /\ ~KeepsUnique(ps, row)
        THEN Outcome(400, {"non_field_errors"}, ps, 0)
        ELSE Outcome(201, {}, Written(ps, row), row.id)

\* PostCRUDSerializer.update
PostUpdate(ps, instance, title, slug, status) ==
    LET slug2 == IF title # None /\ ~Truthy(slug)
                 THEN Lower(slugify(title)) ELSE slug
        row == [instance EXCEPT
                   !.title = IF title = None THEN @ ELSE title,
                   !.slug = IF slug2 = None THEN @ ELSE slug2,
                   !.status = IF status = NoStatus THEN @ ELSE status]
    IN  IF PostSlugIsUnique /\ ~KeepsUnique(ps, row)
        THEN Outcome(500, {"IntegrityError"}, ps, 0)
        ELSE Outcome(200, {}, Written(ps, row), row.id)

\* is_valid() and save() of PostCRUDSerializer on one request
PostSave(ps, instance, title, slug, status, partial) ==
    LET errors == PostFieldErrors(ps, instance, title, slug, partial)
    IN  IF errors # {} THEN Outcome(400, errors, ps, 0)
        ELSE IF instance.id = NoInstance.id
        THEN PostCreate(ps, title, slug, status)
        ELSE PostUpdate(ps, instance, title, slug, status)

-----------------------------------------------------------------------------
(* Requests                                                                *)

\* a request, the table it found and its response
Response(op, kind, rows, instance, title, slug, out) ==
    [op |-> op, kind |-> kind, before |-> rows, target |-> instance.id,
     title |-> title, slug |-> slug, status |-> out.status,
     errors |-> out.errors, saved |-> out.saved]

NoResponse ==
    [op |-> "none", kind |-> "none", before |-> {}, target |-> 0,
     title |-> None, slug |-> None, status |-> 0, errors |-> {}, saved |-> 0]

\* the resolver at rest
LoopIdle ==
    [pc |-> "idle", title |-> None, base_slug |-> None, unique_slug |-> None,
     num |-> 0, probes |-> 0, results |-> <<>>]

\* no create request is in flight
RaceIdle == <<>>

\* a request that adds a row is taken only while the model has room for it;
\* a behaviour fills one collection, the other two stay empty
HasRoom(rows, out) ==
    Cardinality(out.rows) > Cardinality(rows) =>
        TotalRecords < MaxRecords /\ TotalRecords = Cardinality(rows)

\* an update view answers 200 also when its serializer had no instance and
\* save() went to create()
UpdateStatus(out) == IF out.status = 201 THEN [out EXCEPT !.status = 200] ELSE out

Init ==
    /\ posts = {}
    /\ categories = {}
    /\ comments = {}
    /\ resp = NoResponse
    /\ lp = LoopIdle
    /\ race = RaceIdle
    /\ users = {}

\* CommentListCreateApiView.post
CommentCreateReq ==
    /\ resp = NoResponse
    /\ \E title \in Titles \cup {None}, slug \in Slugs, content \in Contents,
          post_ok \in BOOLEAN :
           LET out == CommentSave(comments, NoInstance, title, slug, content,
                                  FALSE, post_ok)
           IN  /\ HasRoom(comments, out)
               /\ comments' = out.rows
               /\ resp' = Response("create", "comment", comments, NoInstance, title,
                                   slug, out)
               /\ UNCHANGED <<posts, categories, lp, race, users>>

\* CommentRetrieveUpdateDestroyApiView.put / patch
CommentUpdateReq ==
    /\ resp = NoResponse
    /\ \E instance \in active_comments(comments) \cup {NoInstance},
          title \in Titles \cup {None}, slug \in Slugs, content \in Contents,
          partial \in BOOLEAN, post_ok \in BOOLEAN :
           LET out == UpdateStatus(CommentSave(comments, instance, title, slug,
                                               content, partial, post_ok))
           IN  /\ HasRoom(comments, out)
               /\ comments' = out.rows
               /\ resp' = Response("update", "comment", comments, instance, title,
                                   slug, out)
               /\ UNCHANGED <<posts, categories, lp, race, users>>

\* CategoryCreateApiView.post
CategoryCreateReq ==
    /\ resp = NoResponse
    /\ \E title \in Titles \cup {None}, slug \in Slugs, raises \in BOOLEAN :
           LET out == CategorySave(categories, NoInstance, title, slug, FALSE,
                                   raises)
           IN  /\ HasRoom(categories, out)
               /\ categories' = out.rows
               /\ resp' = Response("create", "category", categories, NoInstance, title,
                                   slug, out)
               /\ UNCHANGED <<posts, comments, lp, race, users>>

\* CategoryUpdateDestroyApiView.put / patch
CategoryUpdateReq ==
    /\ resp = NoResponse
    /\ \E instance \in categories \cup {NoInstance}, title \in Titles \cup {None},
          slug \in Slugs, partial \in BOOLEAN, raises \in BOOLEAN :
           LET out == IF instance.id = NoInstance.id
                      THEN Outcome(404, {"detail"}, categories, 0)
                      ELSE CategorySave(categories, instance, title, slug,
                                        partial, raises)
           IN  /\ categories' = out.rows
               /\ resp' = Response("update", "category", categories, instance, title,
                                   slug, out)
               /\ UNCHANGED <<posts, comments, lp, race, users>>

\* PostCreateApiView.post
PostCreateReq ==
    /\ resp = NoResponse
    /\ \E title \in Titles \cup {None}, slug \in Slugs, status \in {DRAFT, PUBLISH} :
           LET out == PostSave(posts, NoInstance, title, slug, status, FALSE)
           IN  /\ HasRoom(posts, out)
               /\ posts' = out.rows
               /\ resp' = Response("create", "post", posts, NoInstance, title,
                                   slug, out)
               /\ UNCHANGED <<categories, comments, lp, race, users>>

\* PostUpdateDestroyApiView.put / patch
PostUpdateReq ==
    /\ resp = NoResponse
    /\ \E instance \in published(posts) \cup {NoInstance},
          title \in Titles \cup {None}, slug \in Slugs, partial \in BOOLEAN :
           LET out == UpdateStatus(PostSave(posts, instance, title, slug,
                                            NoStatus, partial))
           IN  /\ HasRoom(posts, out)
               /\ posts' = out.rows
               /\ resp' = Response("update", "post", posts, instance, title,
                                   slug, out)
               /\ UNCHANGED <<categories, comments, lp, race, users>>

\* the response reaches the client; the next request can be taken
Deliver ==
    /\ resp # NoResponse
    /\ resp' = NoResponse
    /\ UNCHANGED <<posts, categories, comments, lp, race, users>>

Next ==
    \/ Deliver
    \/ CommentCreateReq
    \/ CommentUpdateReq
    \/ CategoryCreateReq
    \/ CategoryUpdateReq
    \/ PostCreateReq
    \/ PostUpdateReq

Spec == Init /\ [][Next]_vars

-----------------------------------------------------------------------------
(* The resolver, one probe at a time                                       *)

LongTitle == [i \in 1..MAX_TITLE_LENGTH |-> "a"]

\* titles the resolver is called with
LoopTitles == {Title1, Title2, LongTitle}

\* slugs the comments hold when the resolver is called
LoopSlugs ==
    <<SlugAB, Suffixed(SlugAB, 1), Suffixed(SlugAB, 2), slugify(LongTitle), SlugX>>

\* the active comments holding the slugs numbered by ids
LoopComments(ids) ==
    {[id |-> i, title |-> Title1, slug |-> LoopSlugs[i], is_active |-> TRUE] :
        i \in ids}

InitLoop ==
    /\ posts = {}
    /\ categories = {}
    /\ \E ids \in SUBSET (1..Len(LoopSlugs)) :
          /\ Cardinality(ids) <= MaxLoopRecords
          /\ comments = LoopComments(ids)
    /\ resp = NoResponse
    /\ lp = LoopIdle
    /\ race = RaceIdle
    /\ users = {}

\* num kept from the call before instead of starting at 1
LoopEntry_KeepsNum(title, results) ==
    LET base_slug == Slice(slugify(title), SLUG_MAX_LENGTH)
    IN  [pc |-> "probe", title |-> title, base_slug |-> base_slug,
         unique_slug |-> base_slug, num |-> IF lp.num > 0 THEN lp.num ELSE 1,
         probes |-> 0, results |-> results]

\* the locals of _generate_unique_slug on entry
LoopEntry(title, results) ==
    LET base_slug == Slice(slugify(title), SLUG_MAX_LENGTH)
    IN  [pc |-> "probe", title |-> title, base_slug |-> base_slug,
         unique_slug |-> base_slug, num |-> 1, probes |-> 0,
         results |-> results]

\* the loop body without num += 1
LoopStep_NoIncrement(cs, l) ==
    IF SlugExists(active_comments(cs), l.unique_slug)
    THEN [l EXCEPT !.unique_slug = Suffixed(l.base_slug, l.num),
                   !.probes = @ + 1]
    ELSE [l EXCEPT !.pc = "done", !.probes = @ + 1,
                   !.results = Append(@, l.unique_slug)]

\* one evaluation of the while condition, and the body or the return
LoopStep(cs, l) ==
    IF SlugExists(active_comments(cs), l.unique_slug)
    THEN [l EXCEPT !.unique_slug = Suffixed(l.base_slug, l.num),
                   !.num = @ + 1, !.probes = @ + 1]
    ELSE [l EXCEPT !.pc = "done", !.probes = @ + 1,
                   !.results = Append(@, l.unique_slug)]

\* a first call of the resolver
LoopStart ==
    /\ lp.pc = "idle"
    /\ \E title \in LoopTitles :
          /\ Len(title) >= MIN_TITLE_LENGTH
          /\ Len(title) <= MAX_TITLE_LENGTH
          /\ lp' = LoopEntry(title, <<>>)
    /\ UNCHANGED <<posts, categories, comments, resp, race, users>>

\* another call with the same title
LoopAgain ==
    /\ lp.pc = "done"
    /\ Len(lp.results) < MaxCalls
    /\ lp' = LoopEntry(lp.title, lp.results)
    /\ UNCHANGED <<posts, categories, comments, resp, race, users>>

LoopProbe ==
    /\ lp.pc = "probe"
    /\ lp' = LoopStep(comments, lp)
    /\ UNCHANGED <<posts, categories, comments, resp, race, users>>

NextLoop == LoopStart \/ LoopAgain \/ LoopProbe

\* a call of the resolver, once entered, runs on
SpecLoop == InitLoop /\ [][NextLoop]_vars /\ WF_vars(LoopProbe)

-----------------------------------------------------------------------------
(* Two create requests served at the same time                             *)

\* the workers serving one request each
Procs == {1, 2}

\* the serializer a racing request goes through
Kinds == {"comment", "category", "post"}

\* a request not yet read by its worker
RaceStart(kind) ==
    [pc |-> "start", kind |-> kind, title |-> None, slug |-> None,
     attrs |-> [ok |-> FALSE, title |-> None, slug |-> None],
     overlapped |-> FALSE, status |-> 0, errors |-> {}, saved |-> 0]

\* the record the collection holds before the two requests arrive
RaceHeld(kind) ==
    IF kind = "post"
    THEN [id |-> 1, title |-> Title2, slug |-> SlugAB, status |-> PUBLISH,
          is_active |-> TRUE]
    ELSE [id |-> 1, title |-> Title2, slug |-> SlugAB, is_active |-> TRUE]

InitRace ==
    /\ resp = NoResponse
    /\ lp = LoopIdle
    /\ users = {}
    /\ \E kind \in Kinds, held \in BOOLEAN :
          LET rows == IF held THEN {RaceHeld(kind)} ELSE {}
          IN  /\ race = [p \in Procs |-> RaceStart(kind)]
              /\ posts = IF kind = "post" THEN rows ELSE {}
              /\ categories = IF kind = "category" THEN rows ELSE {}
              /\ comments = IF kind = "comment" THEN rows ELSE {}

\* serializer.is_valid() of a create request: the field validators and
\* validate(), both reading the collection as it is now
RaceIsValid(kind, rows, title, slug) ==
    CASE kind = "comment" ->
           [errors |-> CommentFieldErrors(rows, NoInstance, title, slug,
                                          Content1, FALSE),
            attrs |-> CommentValidate(rows, title, slug, Content1)]
      [] kind = "category" ->
           [errors |-> CategoryFieldErrors(rows, NoInstance, title, slug, FALSE),
            attrs |-> CategoryValidate(rows, NoInstance, title, slug)]
      [] OTHER ->
           [errors |-> PostFieldErrors(rows, NoInstance, title, slug, FALSE),
            attrs |-> [ok |-> TRUE, title |-> title, slug |-> slug]]

\* create() probing the collection again at the time of its write
RaceWrite_Reprobed(kind, rows, t, raises) ==
    LET v == RaceIsValid(kind, rows, t.title, t.slug)
    IN  IF v.errors # {} THEN Outcome(400, v.errors, rows, 0)
        ELSE IF ~v.attrs.ok THEN Outcome(400, {"slug"}, rows, 0)
        ELSE CASE kind = "comment" -> CommentCreate(rows, v.attrs, TRUE)
               [] kind = "category" -> CategoryCreate(rows, v.attrs, raises)
               [] OTHER -> PostCreate(rows, v.attrs.title, v.attrs.slug, PUBLISH)

\* serializer.save() of a create request: create() writes the validated
\* data as is_valid() left it, into the collection as it is now
RaceWrite(kind, rows, t, raises) ==
    CASE kind = "comment" -> CommentCreate(rows, t.attrs, TRUE)
      [] kind = "category" -> CategoryCreate(rows, t.attrs, raises)
      [] OTHER -> PostCreate(rows, t.attrs.title, t.attrs.slug, PUBLISH)

\* worker p validates its request; a request that is refused is answered
RaceValidate(p) ==
    /\ race[p].pc = "start"
    /\ \E title \in Titles, slug \in Slugs :
          LET kind == race[p].kind
              v == RaceIsValid(kind, RowsOfKind(kind), title, slug)
              bad == v.errors # {} \/ ~v.attrs.ok
              q == CHOOSE o \in Procs : o # p
              meets == ~bad /\ race[q].pc = "validated"
          IN  race' = [race EXCEPT
                  ![p] = [@ EXCEPT
                      !.pc = IF bad THEN "done" ELSE "validated",
                      !.title = title, !.slug = slug, !.attrs = v.attrs,
                      !.overlapped = meets,
                      !.status = IF bad THEN 400 ELSE 0,
                      !.errors = IF v.errors # {} THEN v.errors
                                 ELSE IF ~bad THEN {}
                                 ELSE IF kind = "category" THEN {"slug"}
                                 ELSE {"content"}],
                  ![q] = [@ EXCEPT !.overlapped = @ \/ meets]]
    /\ UNCHANGED <<posts, categories, comments, resp, lp, users>>

\* worker p saves its validated request and answers
RaceCreate(p) ==
    /\ race[p].pc = "validated"
    /\ \E raises \in BOOLEAN :
          LET kind == race[p].kind
              out == RaceWrite(kind, RowsOfKind(kind), race[p], raises)
          IN  /\ raises => kind = "category"
              /\ race' = [race EXCEPT ![p] = [@ EXCEPT
                             !.pc = "done", !.status = out.status,
                             !.errors = out.errors, !.saved = out.saved]]
              /\ posts' = IF kind = "post" THEN out.rows ELSE posts
              /\ categories' = IF kind = "category" THEN out.rows ELSE categories
              /\ comments' = IF kind = "comment" THEN out.rows ELSE comments
    /\ UNCHANGED <<resp, lp, users>>

NextRace == \E p \in Procs : RaceValidate(p) \/ RaceCreate(p)

SpecRace == InitRace /\ [][NextRace]_vars

-----------------------------------------------------------------------------
(* comments/views.py: CommentRetrieveUpdateDestroyApiView                  *)

\* the authenticated users a request comes from (permission IsAuthenticated)
Users == {"u1", "u2", "staff"}

\* request.user.is_staff
is_staff(user) == user = "staff"

\* get_object without the comparison of comment.author with request.user
get_object_AnyUser(cs, slug, user) ==
    IF SlugExists(active_comments(cs), slug)
    THEN CHOOSE c \in active_comments(cs) : c.slug = slug
    ELSE NoInstance

\* CommentRetrieveUpdateDestroyApiView.get_object; NoInstance stands for the
\* None it returns
get_object(cs, slug, user) ==
    IF SlugExists(active_comments(cs), slug)
    THEN LET comment == CHOOSE c \in active_comments(cs) : c.slug = slug
         IN  IF comment.author # user /\ ~is_staff(user)
             THEN NoInstance
             ELSE comment
    ELSE NoInstance

\* create() sets validated_data['author'] = request.user on the row it adds
Authored(before, out, user) ==
    [out EXCEPT !.rows =
        {IF HasId(before, r.id) THEN r
         ELSE [id |-> r.id, title |-> r.title, slug |-> r.slug,
               is_active |-> r.is_active, author |-> user] : r \in out.rows}]

\* CommentRetrieveUpdateDestroyApiView.destroy
CommentDestroy(cs, instance) ==
    IF instance.id = NoInstance.id
    THEN Outcome(404, {"detail"}, cs, 0)
    ELSE Outcome(200, {}, ExcludePk(cs, instance.id), 0)

\* a request of one user for the comment at one slug, and its response
OwnerResponse(op, user, lookup, rows, instance, title, slug, out) ==
    [op |-> op, kind |-> "comment", before |-> rows, target |-> instance.id,
     title |-> title, slug |-> slug, status |-> out.status,
     errors |-> out.errors, saved |-> out.saved, user |-> user,
     lookup |-> lookup]

\* the slugs a request's URL names
LookupSlugs == {SlugAB, SlugX}

\* the comments stored before the requests: one of u1, or one each of u1, u2
InitOwner ==
    /\ posts = {}
    /\ categories = {}
    /\ \E n \in 1..2 :
          comments =
             {[id |-> i, title |-> Title2,
               slug |-> IF i = 1 THEN SlugAB ELSE SlugX,
               is_active |-> TRUE,
               author |-> IF i = 1 THEN "u1" ELSE "u2"] : i \in 1..n}
    /\ resp = NoResponse
    /\ lp = LoopIdle
    /\ race = RaceIdle
    /\ users = {}

\* CommentRetrieveUpdateDestroyApiView.put / patch
OwnerUpdateReq ==
    /\ resp = NoResponse
    /\ \E user \in Users, lookup \in LookupSlugs, title \in {None, Title1},
          slug \in {None}, content \in Contents, partial \in BOOLEAN,
          post_ok \in BOOLEAN :
           LET instance == get_object(comments, lookup, user)
               out == Authored(comments,
                         UpdateStatus(CommentSave(comments, instance, title,
                                          slug, content, partial, post_ok)),
                         user)
           IN  /\ HasRoom(comments, out)
               /\ comments' = out.rows
               /\ resp' = OwnerResponse("update", user, lookup, comments,
                                        instance, title, slug, out)
               /\ UNCHANGED <<posts, categories, lp, race, users>>

\* CommentRetrieveUpdateDestroyApiView.delete
OwnerDestroyReq ==
    /\ resp = NoResponse
    /\ \E user \in Users, lookup \in LookupSlugs :
           LET instance == get_object(comments, lookup, user)
               out == CommentDestroy(comments, instance)
           IN  /\ comments' = out.rows
               /\ resp' = OwnerResponse("destroy", user, lookup, comments,
                                        instance, None, None, out)
               /\ UNCHANGED <<posts, categories, lp, race, users>>

NextOwner == OwnerUpdateReq \/ OwnerDestroyReq \/ Deliver

SpecOwner == InitOwner /\ [][NextOwner]_vars

-----------------------------------------------------------------------------
(* users/serializers.py, users/views.py                                    *)

PASSWORD_MIN_LENGTH == 8

\* e-mail addresses of requests; EmailA and EmailA2 differ only in case
EmailA == <<"a", "@", "x">>
EmailA2 == <<"A", "@", "x">>
EmailB == <<"b", "@", "x">>
Emails == {EmailA, EmailA2, EmailB}

Usernames == {<<"a">>, <<"b">>}

\* passwords of requests: two that PasswordField accepts, one it refuses
Password1 == <<"A", "a", "1", "a", "a", "a", "a", "a">>
Password2 == <<"B", "b", "2", "b", "b", "b", "b", "b">>
WeakPassword == <<"a", "b", "c">>
Passwords == {Password1, Password2, WeakPassword}

\* any(pred(char) for char in value)
AnyChar(value, chars) == \E i \in 1..Len(value) : value[i] \in chars

\* PasswordField: min_length and _validate_password_strength
PasswordFieldOk(value) ==
    /\ Len(value) >= PASSWORD_MIN_LENGTH
    /\ AnyChar(value, DigitChars)
    /\ AnyChar(value, UpperChars)
    /\ AnyChar(value, LowerChars)

\* django validate_password under AUTH_PASSWORD_VALIDATORS: the length and
\* all-digits validators (no request password is a common one)
validate_password(value) ==
    /\ Len(value) >= PASSWORD_MIN_LENGTH
    /\ ~(\A i \in 1..Len(value) : value[i] \in DigitChars)

\* the hash set_password / create_user store for a raw password
make_password(raw) == <<"pbkdf2", "$">> \o raw

\* user.check_password
check_password(user, raw) == user.password = make_password(raw)

\* the lookup email__iexact
IExact(a, b) == Lower(a) = Lower(b)

\* BaseUserManager.normalize_email: the domain part in lower case
normalize_email(email) ==
    IF \E i \in 1..Len(email) : email[i] = "@"
    THEN LET at == CHOOSE i \in 1..Len(email) :
                      /\ email[i] = "@"
                      /\ \A j \in (i + 1)..Len(email) : email[j] # "@"
         IN  SubSeq(email, 1, at) \o Lower(SubSeq(email, at + 1, Len(email)))
    ELSE email

\* the ways an exception class raised in validate() can reach the client:
\* as a serializers.ValidationError subclass (400, non_field_errors), as
\* another APIException subclass (its status, detail) or as a plain
\* Exception (500)
ExceptionBases == {"ValidationError", "APIException", "Exception"}

\* the response to UserAlreadyExists / WeakPasswordError raised in validate()
Raised(base, us) ==
    CASE base = "ValidationError" -> Outcome(400, {"non_field_errors"}, us, 0)
      [] base = "APIException" -> Outcome(400, {"detail"}, us, 0)
      [] OTHER -> Outcome(500, {"Exception"}, us, 0)

\* the fields of UserRegisterSerializer that reject their input
RegisterFieldErrors(us, email, username, password, password2) ==
    {f \in {"email", "username", "password", "password2"} :
        \/ f = "email" /\ \E u \in us : u.email = email
        \/ f = "username" /\ \E u \in us : u.username = username
        \/ f = "password" /\ ~PasswordFieldOk(password)
        \/ f = "password2" /\ ~PasswordFieldOk(password2)}

\* UserRegisterSerializer.is_valid and save: the field validators,
\* validate() and create()
RegisterSave(us, email, username, password, password2, active, base) ==
    LET errors == RegisterFieldErrors(us, email, username, password, password2)
        row == [id |-> NextPk(us), email |-> normalize_email(email),
                username |-> username, password |-> make_password(password),
                is_active |-> active]
    IN  IF errors # {} THEN Outcome(400, errors, us, 0)
        ELSE IF password # password2 THEN Outcome(400, {"password2"}, us, 0)
        ELSE IF \E u \in us : IExact(u.email, Lower(email))
        THEN Raised(base, us)
        ELSE IF ~validate_password(password) THEN Raised(base, us)
        ELSE Outcome(201, {}, us \cup {row}, row.id)

\* default_token_generator.make_token: the token is a keyed hash of the
\* user's pk, password hash and e-mail
make_token(user) ==
    [uid |-> user.id, password |-> user.password, email |-> user.email]

\* a token no user was given ('invalid-token')
InvalidToken == [uid |-> 0, password |-> <<>>, email |-> <<>>]

\* check_token that accepts every token
check_token_Any(user, token) == TRUE

\* default_token_generator.check_token
check_token(user, token) == token = make_token(user)

\* users/views.py activate_account
activate_account(us, uuid, token) ==
    IF \E u \in us : u.id = uuid /\ ~u.is_active
    THEN LET user == CHOOSE u \in us : u.id = uuid /\ ~u.is_active
         IN  IF check_token(user, token)
             THEN Outcome(200, {}, Written(us, [user EXCEPT !.is_active = TRUE]),
                          user.id)
             ELSE Outcome(400, {"error"}, us, 0)
    ELSE Outcome(400, {"error"}, us, 0)

\* the fields of a password change request
ChangeFields == {"old_password", "new_password", "new_password2"}

\* attrs.get(key, default)
Get(attrs, key, default) == IF key \in DOMAIN attrs THEN attrs[key] ELSE default

\* the fields of ChangePasswordSerializer that reject their input; data maps
\* the fields the request carries to their values
ChangePasswordFieldErrors(user, data, partial) ==
    {f \in ChangeFields :
        \/ f \notin DOMAIN data /\ ~partial
        \/ /\ f \in DOMAIN data
           /\ \/ f = "old_password" /\ ~check_password(user, data[f])
              \/ f # "old_password" /\ ~PasswordFieldOk(data[f])}

\* ChangePasswordSerializer.validate: whether it raises
ChangePasswordValidateRaises(attrs) ==
    Get(attrs, "password", <<>>) # Get(attrs, "password2", <<>>)

\* ModelSerializer.update: setattr(instance, attr, value) for every
\* validated attr, then instance.save(), which stores the model's fields
ModelUpdate(instance, attrs) ==
    [f \in DOMAIN instance |->
        IF f \in DOMAIN attrs THEN attrs[f] ELSE instance[f]]

\* PasswordChangeApiView.put / patch for request.user
PasswordChange(us, user, data, partial) ==
    LET errors == ChangePasswordFieldErrors(user, data, partial)
    IN  IF errors # {} THEN Outcome(400, errors, us, 0)
        ELSE IF ChangePasswordValidateRaises(data)
        THEN Outcome(500, {"ValueError"}, us, 0)
        ELSE Outcome(200, {}, Written(us, ModelUpdate(user, data)), user.id)

\* the two bodies reset_password answers with
DETAIL_SENT ==
    "If an account exists with this email, you will receive a password reset link."
DETAIL_ERROR == "If an account exists, you will receive a password reset link."

\* a well-formed address no user registers with, and a text EmailField refuses
EmailUnknown == <<"c", "@", "x">>
EmailMalformed == <<"a", "x">>

\* serializers.EmailField: one @ with text on both sides
IsEmail(value) ==
    \E i \in 2..(Len(value) - 1) :
        /\ value[i] = "@"
        /\ \A j \in 1..Len(value) : value[j] = "@" => j = i

\* Profile.objects.get(email__iexact=value.lower()): the rows it matches
ResetMatches(us, value) == {u \in us : IExact(u.email, Lower(value))}

\* PasswordResetSerializer.is_valid(raise_exception=True): whether it
\* raises, and whether the reset e-mail left.  validate_email gives the user
\* of the address or None; validate sends the e-mail to an active user, and
\* mail_fails says whether sending raises.
PasswordResetIsValid(us, email, mail_fails) ==
    IF ~IsEmail(email) THEN [raises |-> TRUE, sent |-> FALSE]
    ELSE IF ResetMatches(us, email) = {} THEN [raises |-> FALSE, sent |-> FALSE]
    ELSE IF Cardinality(ResetMatches(us, email)) > 1
    THEN [raises |-> TRUE, sent |-> FALSE]
    ELSE LET user == CHOOSE u \in ResetMatches(us, email) : TRUE
         IN  IF user.is_active
             THEN [raises |-> mail_fails, sent |-> ~mail_fails]
             ELSE [raises |-> FALSE, sent |-> FALSE]

\* users/views.py reset_password: the response and whether an e-mail left
reset_password(us, email, mail_fails) ==
    LET v == PasswordResetIsValid(us, email, mail_fails)
    IN  [status |-> 200,
         body |-> IF v.raises THEN DETAIL_ERROR ELSE DETAIL_SENT,
         sent |-> v.sent]

\* a request about users, the users it found and its response
UserResponse(op, us, req, out) ==
    [op |-> op, kind |-> "user", before |-> us, req |-> req,
     status |-> out.status, errors |-> out.errors, saved |-> out.saved]

\* the request bodies a password change can carry
ChangeData ==
    UNION {[D -> Passwords] : D \in SUBSET ChangeFields}

InitUsers ==
    /\ posts = {}
    /\ categories = {}
    /\ comments = {}
    /\ resp = NoResponse
    /\ lp = LoopIdle
    /\ race = RaceIdle
    /\ users = {}

\* UserSignUpApiView.create; the new row's is_active is the Profile model's
\* default
RegisterReq ==
    /\ resp = NoResponse
    /\ \E email \in Emails, username \in Usernames, password \in Passwords,
          password2 \in Passwords, active \in BOOLEAN, base \in ExceptionBases :
           LET out == RegisterSave(users, email, username, password, password2,
                                   active, base)
           IN  /\ Cardinality(out.rows) <= MaxUsers
               /\ users' = out.rows
               /\ resp' = UserResponse("register", users,
                              [email |-> email, username |-> username,
                               password |-> password, password2 |-> password2],
                              out)
    /\ UNCHANGED <<posts, categories, comments, lp, race>>

\* activate_account, with a token made for one of the users or with none
ActivateReq ==
    /\ resp = NoResponse
    /\ \E uuid \in 1..MaxUsers,
          token \in {make_token(u) : u \in users} \cup {InvalidToken} :
           LET out == activate_account(users, uuid, token)
           IN  /\ users' = out.rows
               /\ resp' = UserResponse("activate", users,
                              [uuid |-> uuid, token |-> token], out)
    /\ UNCHANGED <<posts, categories, comments, lp, race>>

\* PasswordChangeApiView.put (partial = FALSE) / patch (partial = TRUE) of
\* an authenticated user
PasswordChangeReq ==
    /\ resp = NoResponse
    /\ \E user \in {u \in users : u.is_active}, data \in ChangeData,
          partial \in BOOLEAN :
           LET out == PasswordChange(users, user, data, partial)
           IN  /\ users' = out.rows
               /\ resp' = UserResponse("password_change", users,
                              [user |-> user.id, data |-> data,
                               partial |-> partial], out)
    /\ UNCHANGED <<posts, categories, comments, lp, race>>

\* reset_password for one address
ResetPasswordReq ==
    /\ resp = NoResponse
    /\ \E email \in Emails \cup {EmailUnknown, EmailMalformed},
          mail_fails \in BOOLEAN :
           LET out == reset_password(users, email, mail_fails)
           IN  resp' = [op |-> "reset_password", kind |-> "user",
                        before |-> users, req |-> [email |-> email],
                        status |-> out.status, errors |-> {}, saved |-> 0,
                        body |-> out.body, sent |-> out.sent]
    /\ UNCHANGED <<posts, categories, comments, lp, race, users>>

NextUsers ==
    \/ RegisterReq
    \/ ActivateReq
    \/ PasswordChangeReq
    \/ ResetPasswordReq
    \/ Deliver

SpecUsers == InitUsers /\ [][NextUsers]_vars

-----------------------------------------------------------------------------
(* Properties                                                              *)

\* the collection a response is about, as it is now
RowsOf(kind) ==
    CASE kind = "post" -> posts
      [] kind = "category" -> categories
      [] kind = "comment" -> comments
      [] OTHER -> {}

ActiveRows(rows) == {r \in rows : r.is_active}

RowById(rows, id) == CHOOSE r \in rows : r.id = id

\* the errors with which a write that collides on the slug is answered
SlugCollisionErrors == {"slug", "IntegrityError", "non_field_errors"}

\* C1: in each collection (posts, categories, comments) no two active
\* records hold the same slug, whatever creates and updates were served.
C1_UniqueSlugs ==
    \A rows \in {posts, categories, comments} :
        \A r1 \in ActiveRows(rows), r2 \in ActiveRows(rows) :
            r1.id # r2.id => r1.slug # r2.slug

\* C1 witness: a second record was stored by a request whose title gives
\* the slug the first record holds.
C1_Witness ==
    /\ resp.saved # 0
    /\ Truthy(resp.title)
    /\ SlugExists(ExcludePk(resp.before, resp.target), slugify(resp.title))
    /\ Cardinality(ActiveRows(RowsOf(resp.kind))) = 2

\* C3: a request with a title and no slug, whose slugify(title) no record
\* of the collection holds, is not refused over the slug, and the record it
\* stores has exactly slugify(title) as its slug.
C3_FreeBaseKept ==
    ( /\ resp.op # "none"
      /\ Truthy(resp.title)
      /\ ~Truthy(resp.slug)
      /\ ~SlugExists(resp.before, slugify(resp.title)) )
    => /\ resp.errors \cap SlugCollisionErrors = {}
       /\ resp.saved # 0 =>
             RowById(RowsOf(resp.kind), resp.saved).slug = slugify(resp.title)

\* C3 witness: a comment was created from a title alone in a collection that
\* holds other records, none with the title's slug.
C3_Witness ==
    /\ resp.op = "create" /\ resp.kind = "comment"
    /\ Truthy(resp.title) /\ ~Truthy(resp.slug)
    /\ resp.before # {}
    /\ ~SlugExists(resp.before, slugify(resp.title))
    /\ resp.status = 201
    /\ RowById(comments, resp.saved).slug = slugify(resp.title)

\* C4 as claimed: a create with a title and no slug, whose slugify(title)
\* another record holds, is never refused over the slug; the record is
\* stored under a slug no record held.
C4_Claim ==
    ( /\ resp.op = "create"
      /\ Truthy(resp.title)
      /\ ~Truthy(resp.slug)
      /\ SlugExists(resp.before, slugify(resp.title)) )
    => /\ resp.errors \cap SlugCollisionErrors = {}
       /\ resp.status = 201 =>
             /\ HasId(RowsOf(resp.kind), resp.saved)
             /\ ~SlugExists(resp.before,
                            RowById(RowsOf(resp.kind), resp.saved).slug)

\* C5 as claimed: a create or update, in order but for its slug, that
\* carries a slug another record of the collection holds is answered 400
\* with an error on the slug field and leaves the collection as it was.
C5_Claim ==
    ( /\ resp.op # "none"
      /\ resp.status # 404
      /\ resp.errors \subseteq SlugCollisionErrors
      /\ Truthy(resp.slug)
      /\ SlugExists(ExcludePk(resp.before, resp.target), resp.slug) )
    => /\ resp.status = 400
       /\ "slug" \in resp.errors
       /\ RowsOf(resp.kind) = resp.before

\* C6 as claimed: an update of record X with title T and no slug, where X
\* holds slugify(T), is not refused over the slug and leaves X holding
\* slugify(T).
C6_Claim ==
    ( /\ resp.op = "update"
      /\ resp.target # 0
      /\ Truthy(resp.title)
      /\ ~Truthy(resp.slug)
      /\ RowById(resp.before, resp.target).slug = slugify(resp.title) )
    => /\ resp.errors \cap SlugCollisionErrors = {}
       /\ RowById(RowsOf(resp.kind), resp.target).slug = slugify(resp.title)

\* C7 as claimed: an update that was served leaves the slug as it was when
\* it carries no slug and no new title, and stores the slug it carries when
\* it carries one.
C7_Claim ==
    ( /\ resp.op = "update"
      /\ resp.target # 0
      /\ resp.status = 200 )
    => LET old == RowById(resp.before, resp.target)
           new == RowById(RowsOf(resp.kind), resp.target)
       IN  /\ ( ~Truthy(resp.slug) /\ resp.title \in {None, old.title} )
               => new.slug = old.slug
           /\ Truthy(resp.slug) => new.slug = resp.slug

\* the text base-n, written out
BaseN(base, n) == base \o <<"-">> \o IntText(n)

LoopTaken(slug) == \E c \in comments : c.is_active /\ c.slug = slug

\* C2: when the base slug is taken, the resolver tries base-1, base-2, ...
\* in this order and returns base-n for the least n >= 1 that no active
\* comment holds.
C2_SmallestFreeSuffix ==
    /\ ( lp.pc = "probe" /\ lp.probes >= 1 )
          => lp.unique_slug = BaseN(lp.base_slug, lp.probes)
    /\ ( lp.pc = "done" /\ LoopTaken(lp.base_slug) )
          => \E n \in 1..(Cardinality(comments) + 1) :
                /\ lp.unique_slug = BaseN(lp.base_slug, n)
                /\ ~LoopTaken(BaseN(lp.base_slug, n))
                /\ \A k \in 1..(n - 1) : LoopTaken(BaseN(lp.base_slug, k))

\* C2 witness: base and base-1 are taken and the resolver returned base-2.
C2_Witness ==
    /\ lp.pc = "done"
    /\ LoopTaken(lp.base_slug)
    /\ LoopTaken(BaseN(lp.base_slug, 1))
    /\ lp.unique_slug = BaseN(lp.base_slug, 2)

\* C8 as claimed: every slug the resolver returns has at most
\* SLUG_MAX_LENGTH characters, suffix included.
C8_Claim == lp.pc = "done" => Len(lp.unique_slug) <= SLUG_MAX_LENGTH

\* C9: the resolver's loop ends, after at most one probe more than there
\* are comments.
C9_Terminates ==
    /\ [](lp.probes <= Cardinality(comments) + 1)
    /\ (lp.pc = "probe" ~> lp.pc = "done")

\* C9 witness: the resolver returned after probing once more than there are
\* comments, each of them holding a candidate.
C9_Witness ==
    /\ lp.pc = "done"
    /\ comments # {}
    /\ lp.probes = Cardinality(comments) + 1

\* C10: resolver calls leave the comments as they are, and a call repeated
\* with the same title returns what the call before returned.
C10_Idempotent ==
    [][ /\ comments' = comments
        /\ \A i \in DOMAIN lp'.results, j \in DOMAIN lp'.results :
              lp'.results[i] = lp'.results[j] ]_vars

\* C10 witness: two calls in a row returned, both with a suffixed slug.
C10_Witness ==
    /\ lp.pc = "done"
    /\ Len(lp.results) = 2
    /\ lp.results[2] # lp.base_slug

\* the two racing requests asked for the same title and carried no slug,
\* and each passed validation before the other had written
RacedOnTitle ==
    /\ race # RaceIdle
    /\ \A p \in Procs : race[p].overlapped /\ ~Truthy(race[p].slug)
    /\ race[1].title = race[2].title

\* the errors with which a write refused by the storage layer is answered
StorageRefusals == {"IntegrityError", "non_field_errors"}

\* C11: two comment or category create requests with the same title that
\* both pass validation before either writes hold the same slug; both go on to write it, the
\* second write is a write of a slug the collection already holds, and the
\* storage layer refuses it.
C11_DuplicateWriteAttempt ==
    ( RacedOnTitle /\ race[1].kind \in {"comment", "category"} ) =>
        /\ race[1].attrs.slug = race[2].attrs.slug
        /\ \A p \in Procs, q \in Procs :
              ( p # q /\ race[p].saved # 0 /\ race[q].pc = "done" ) =>
                 /\ race[q].saved = 0
                 /\ race[q].errors \subseteq StorageRefusals \cup {"ValueError"}
                 /\ RowById(RowsOfKind(race[p].kind), race[p].saved).slug
                       = race[q].attrs.slug

\* C11 witness: both comment requests passed the probe with the suffixed
\* slug a-b-1, one was stored and the other's write was refused.
C11_Witness ==
    /\ RacedOnTitle
    /\ race[1].kind = "comment"
    /\ race[1].attrs.slug = Suffixed(SlugAB, 1)
    /\ \E p \in Procs, q \in Procs :
          /\ race[p].saved # 0
          /\ race[q].pc = "done"
          /\ race[q].errors = {"IntegrityError"}

\* C12 as claimed: of two racing creates with the same title and no slug,
\* neither is answered with a storage refusal; once both are answered, both
\* records are stored, under different slugs.
C12_Claim ==
    ( /\ RacedOnTitle
      /\ \A p \in Procs : race[p].pc = "done" /\ "ValueError" \notin race[p].errors )
    => /\ \A p \in Procs : race[p].saved # 0
       /\ RowById(RowsOfKind(race[1].kind), race[1].saved).slug
             # RowById(RowsOfKind(race[2].kind), race[2].saved).slug

\* C13 as claimed: every slug a collection holds is lowercase, for posts,
\* categories and comments alike.
C13_Claim ==
    \A rows \in {posts, categories, comments} :
        \A r \in rows : r.slug = Lower(r.slug)

\* the user of the last request may act on comment c
MayModify(c) == c.author = resp.user \/ is_staff(resp.user)

DuplicateEmailRegistration ==
    /\ resp.op = "register"
    /\ PasswordFieldOk(resp.req.password)
    /\ resp.req.password2 = resp.req.password
    /\ \A u \in resp.before : u.username # resp.req.username
    /\ \E u \in resp.before : IExact(u.email, resp.req.email)

\* C15 as claimed: a registration with an e-mail that a user holds, case
\* ignored, is answered 400 with an error on the email field and adds no
\* user; no two users hold e-mails equal when case is ignored.
C15_Claim ==
    /\ DuplicateEmailRegistration =>
          /\ resp.status = 400
          /\ "email" \in resp.errors
          /\ users = resp.before
    /\ \A u1 \in users, u2 \in users :
          u1.id # u2.id => ~IExact(u1.email, u2.email)

\* the user a request addressed, as stored before it
Addressed(id) == RowById(resp.before, id)

\* C16 as claimed: activate_account with the id of a user and a token made
\* for that user is answered 200, and the user is active afterwards.
C16_Claim ==
    ( /\ resp.op = "activate"
      /\ HasId(resp.before, resp.req.uuid)
      /\ resp.req.token = make_token(Addressed(resp.req.uuid)) )
    => /\ resp.status = 200
       /\ RowById(users, resp.req.uuid).is_active

\* C17: activate_account with a token that was not made for the addressed
\* user is answered 400 and leaves every user's is_active as it was.
C17_InvalidTokenRejected ==
    ( /\ resp.op = "activate"
      /\ \A u \in resp.before :
            u.id = resp.req.uuid => resp.req.token # make_token(u) )
    => /\ resp.status = 400
       /\ \A u \in resp.before :
             HasId(users, u.id) /\ RowById(users, u.id).is_active = u.is_active

\* C17 witness: an inactive user was addressed with the token of another
\* user, the request was answered 400 and the user is still inactive.
C17_Witness ==
    /\ resp.op = "activate"
    /\ resp.status = 400
    /\ resp.req.token # InvalidToken
    /\ \E u \in users :
          /\ u.id = resp.req.uuid
          /\ ~u.is_active
          /\ resp.req.token # make_token(u)

\* the last request was a password change carrying these fields
ChangeCarries(fields) ==
    resp.op = "password_change" /\ fields \subseteq DOMAIN resp.req.data

\* C18 as claimed: after a password change with the right old password and
\* twice the same new password was answered 200, the stored password
\* verifies against the new password and no longer against the old one.
C18_Claim ==
    ( /\ ChangeCarries(ChangeFields)
      /\ resp.status = 200
      /\ check_password(Addressed(resp.req.user), resp.req.data["old_password"])
      /\ resp.req.data["new_password"] = resp.req.data["new_password2"]
      /\ resp.req.data["new_password"] # resp.req.data["old_password"] )
    => LET user == RowById(users, resp.req.user)
       IN  /\ check_password(user, resp.req.data["new_password"])
           /\ ~check_password(user, resp.req.data["old_password"])

\* C19 as claimed: a password change whose new_password and new_password2
\* differ is refused and leaves the stored password as it was.
C19_Claim ==
    ( /\ ChangeCarries({"new_password", "new_password2"})
      /\ resp.req.data["new_password"] # resp.req.data["new_password2"] )
    => /\ resp.status >= 400
       /\ RowById(users, resp.req.user).password
             = Addressed(resp.req.user).password

\* C20 as claimed: a password change that carries a wrong old_password, or
\* none, is refused and leaves the stored password as it was.
C20_Claim ==
    ( /\ resp.op = "password_change"
      /\ \/ "old_password" \notin DOMAIN resp.req.data
         \/ ~check_password(Addressed(resp.req.user),
                            resp.req.data["old_password"]) )
    => /\ resp.status >= 400
       /\ RowById(users, resp.req.user).password
             = Addressed(resp.req.user).password

\* the last request asked to reset the password of a well-formed address
ResetAsked == resp.op = "reset_password" /\ IsEmail(resp.req.email)

\* C21 as claimed: reset_password answers 200; for a well-formed address its
\* status and body are those it gives for a well-formed address of no
\* account; an e-mail is sent only for the address of an active account.
C21_Claim ==
    /\ resp.op = "reset_password" => resp.status = 200
    /\ ResetAsked =>
          /\ resp.status = reset_password(resp.before, EmailUnknown, FALSE).status
          /\ resp.body = reset_password(resp.before, EmailUnknown, FALSE).body
          /\ resp.sent =>
                \E u \in resp.before :
                    IExact(u.email, resp.req.email) /\ u.is_active

\* C22 as claimed: no category has an empty title; a category create or
\* update whose title equals, case ignored, the title of another category
\* is refused and stores nothing; no two categories have titles equal when
\* case is ignored.
C22_Claim ==
    /\ \A c \in categories : Strip(c.title, {" "}) # <<>>
    /\ ( /\ resp.kind = "category"
         /\ resp.title # None
         /\ \E c \in ExcludePk(resp.before, resp.target) :
               IExact(c.title, CategoryCleanTitle(resp.title)) )
       => resp.status >= 400 /\ categories = resp.before
    /\ \A c1 \in categories, c2 \in categories :
          c1.id # c2.id => ~IExact(c1.title, c2.title)

====
